---- MODULE Spec2Model ----
(***************************************************************************)
(* Token lifecycle and transparent refresh of supabase-scoped-clients.     *)
(*                                                                         *)
(* ScopedClient (scoped_client.py) is used from threads and guards its     *)
(* refresh with a threading.Lock; AsyncScopedClient                        *)
(* (async_scoped_client.py) is used from coroutines of one event loop and  *)
(* guards it with an asyncio.Lock.  A wrapper is modelled by its fields    *)
(* (_token_exp, _client, _lock, ...), a caller by its position in          *)
(* _ensure_valid_token / _create_client / _refresh_token and its locals.   *)
(* The clock counts ticks of 1/Res second; int(time.time()) is Sec(now).   *)
(***************************************************************************)
EXTENDS Integers, Sequences, FiniteSets, TLC

\* ------------------------------------------------------------------ bounds
MaxThreads == 2      \* callers (threads or coroutines), each making one call
MaxTick == 3         \* ticks the clock may advance after the first state
MaxFails == 1        \* regenerations that may raise
MaxValidity == 2     \* largest expiry_seconds tried
MaxThreshold == 2    \* largest refresh_threshold_seconds tried
MaxIdLen == 2        \* longest user id handed to generate_token, in characters
MaxWrap == 2         \* TokenRefreshProxy layers around the client handed to a caller
MaxRestarts == 2     \* times a caller goes back to its proxy for another chain
MaxSetters == 3      \* setter calls made on a builder before build()

\* Ticks per second of the clock: time.time() is a float, int() truncates it.
Res == 2

Threads == 1..MaxThreads
Wrappers == {"w1", "w2"}
Flavors == {"sync", "async"}
Validities == 1..MaxValidity
Thresholds == 0..MaxThreshold
\* Whole seconds a wrapper may have been idle since its construction.
Ages == 0..(MaxValidity + 1)

VARIABLES
    now,                \* the clock, in ticks
    flavor,             \* w -> "sync" (ScopedClient) or "async" (AsyncScopedClient)
    expiry_seconds,     \* w -> self._expiry_seconds
    refresh_threshold,  \* w -> self._refresh_threshold
    token_exp,          \* w -> self._token_exp
    clients,            \* w -> the external clients built so far, each by its Authorization token
    client,             \* w -> self._client, an index into clients[w]
    lock,               \* w -> holder of self._lock, 0 when unlocked
    surface,            \* the operations callers use in this run
    owner,              \* t -> the wrapper caller t works on
    pc,                 \* t -> position of caller t
    acc,                \* t -> the operation caller t is in
    current_time,       \* t -> the clock as the caller's staleness check read it: whole
                        \*      seconds (int(time.time())) in ScopedClient, ticks (the
                        \*      float time.time()) in AsyncScopedClient
    token,              \* t -> local token of _create_client / _refresh_token
    path,               \* t -> "none" before t's call; "fresh" / "stale" (the wrapper as
                        \*      the call found it) while it runs; how its ensure-valid
                        \*      ended after that: "fast", "rechecked", "refreshed", "raised"
    waited,             \* t -> t was blocked on the lock when a regeneration raised
    regens,             \* w -> invocations of _create_client / _refresh_token after construction
    fails,              \* w -> regenerations that raised
    first_exp,          \* w -> _token_exp as construction recorded it
    pending,            \* w -> a regeneration wrote _token_exp and no client carries its token yet
    mint_args,          \* the arguments of a direct generate_token call
    minted,             \* what that call produced
    ctor,               \* a construction call (factory, constructor or builder) in progress
    px,                 \* a caller working through a TokenRefreshProxy
    builder,            \* a ScopedClientBuilder / AsyncScopedClientBuilder in use
    delegated           \* t -> the exception the underlying client raised in t's
                        \*      delegated operation, and the one t's call ended with

vars == <<now, flavor, expiry_seconds, refresh_threshold, token_exp, clients, client,
          lock, surface, owner, pc, acc, current_time, token, path, waited,
          regens, fails, first_exp, pending, mint_args, minted, ctor, px, builder,
          delegated>>

\* What no step of a wrapper's operations changes.
wrapperVars == <<flavor, expiry_seconds, refresh_threshold, surface, owner, mint_args,
                 minted, ctor, px, builder, delegated>>

\* ------------------------------------------------------------ pure helpers
\* int(time.time()) at clock value tick.
Sec(tick) == tick \div Res

\* Mutant: the recorded expiry leaves out the validity.
ExpiryAt_NoValidity(tick, validity) == Sec(tick)

\* Mutant: the recorded expiry counts down as the clock advances.
ExpiryAt_Countdown(tick, validity) == validity - Sec(tick)

\* int(time.time()) + expiry_seconds, the expiry a wrapper records at clock value tick.
ExpiryAt(tick, validity) == Sec(tick) + validity

\* What the wrappers were built with: user id, role and custom claims.
UserId(w) == IF w = "w1" THEN "A" ELSE "B"

Role(w) == IF w = "w1" THEN "authenticated" ELSE "service_role"

CustomClaims(w) == IF w = "w1" THEN <<>> ELSE <<<<"org", "acme">>>>

\* Mutant: the regeneration mints with the default role and without the custom claims.
StoredIdentity_Defaults(w) ==
    [user_id |-> UserId(w), role |-> "authenticated", custom_claims |-> <<>>]

\* self._user_id, self._role, self._custom_claims: stored by __init__, never assigned
\* again.
StoredIdentity(w) ==
    [user_id |-> UserId(w), role |-> Role(w), custom_claims |-> CustomClaims(w)]

\* generate_token: the claims of the minted credential (iat and exp in whole seconds).
GenerateToken(user_id, role, validity, custom_claims, tick) ==
    [sub |-> user_id, role |-> role, iat |-> Sec(tick), exp |-> Sec(tick) + validity,
     claims |-> custom_claims]

NoToken == [sub |-> "", role |-> "", iat |-> 0, exp |-> 0, claims |-> <<>>]

Ensure == "_ensure_valid_token"

\* The delegating operations of each wrapper class.
Accessors(f) ==
    IF f = "sync"
    THEN {"table", "storage", "functions", "rpc", "auth", "realtime", "__getattr__"}
    ELSE {"table", "storage", "functions", "rpc", "auth", "realtime", "postgrest",
          "__getattr__"}

AllOperations == {Ensure} \cup Accessors("sync") \cup Accessors("async")

\* ---------------------------------------------------------- generate_token
\* A user id is a string: a sequence of characters, " " being whitespace.
Chars == {" ", "a", "b"}

Strings(n) == UNION {[1..k -> Chars] : k \in 0..n}

\* str.strip(): leading and trailing whitespace removed.
RECURSIVE Strip(_)
Strip(str) ==
    IF str = <<>> THEN str
    ELSE IF Head(str) = " " THEN Strip(Tail(str))
    ELSE IF str[Len(str)] = " " THEN Strip(SubSeq(str, 1, Len(str) - 1))
    ELSE str

\* Mutant: only the empty string counts as blank.
Blank_EmptyOnly(user_id) == user_id = <<>>

\* not user_id or not user_id.strip()
Blank(user_id) == user_id = <<>> \/ Strip(user_id) = <<>>

\* Defaults of generate_token's keyword arguments.
DefaultRole == "authenticated"
DefaultExpiry == 3600

Config == [supabase_url |-> "https://project.supabase.co", supabase_jwt_secret |-> "secret"]

\* Mutant: update() keeps the value of a key that is already present.
DictUpdate_KeepOld(d, e) ==
    [k \in DOMAIN d \cup DOMAIN e |-> IF k \in DOMAIN d THEN d[k] ELSE e[k]]

\* dict.update: the entries of e are added to d, replacing those with the same key.
DictUpdate(d, e) ==
    [k \in DOMAIN d \cup DOMAIN e |-> IF k \in DOMAIN e THEN e[k] ELSE d[k]]

RequiredKeys == {"sub", "role", "aud", "iss", "iat", "exp"}

\* Mutant: the audience is copied from the role.
RequiredClaims_AudFromRole(config, user_id, role, iat, exp) ==
    [k \in RequiredKeys |->
        CASE k = "sub" -> user_id
          [] k = "role" -> role
          [] k = "aud" -> role
          [] k = "iss" -> <<config.supabase_url, "/auth/v1">>
          [] k = "iat" -> iat
          [] k = "exp" -> exp]

\* The required claims generate_token writes last into the payload.
RequiredClaims(config, user_id, role, iat, exp) ==
    [k \in RequiredKeys |->
        CASE k = "sub" -> user_id
          [] k = "role" -> role
          [] k = "aud" -> "authenticated"
          [] k = "iss" -> <<config.supabase_url, "/auth/v1">>
          [] k = "iat" -> iat
          [] k = "exp" -> exp]

\* pyjwt.encode(payload, key, algorithm): a token is its payload signed with key.
JwtEncode(payload, key, algorithm) == [alg |-> algorithm, key |-> key, payload |-> payload]

\* pyjwt.decode(token, key, algorithms=["HS256"]): the payload when the signature
\* verifies, the empty payload here otherwise.
JwtDecode(jwt, key) ==
    IF jwt.key = key /\ jwt.alg = "HS256" THEN jwt.payload ELSE <<>>

NoJwt == JwtEncode(<<>>, "", "")

\* generate_token(config, user_id, role=, expiry_seconds=, custom_claims=) called at clock
\* value tick: the error it raises ("" when none) and the token it returns.
generate_token(config, user_id, role, validity, custom_claims, tick) ==
    IF Blank(user_id) THEN [raised |-> "TokenError", jwt |-> NoJwt]
    ELSE IF validity <= 0 THEN [raised |-> "TokenError", jwt |-> NoJwt]
    ELSE LET iat == Sec(tick)
             exp == iat + validity
             payload == IF DOMAIN custom_claims # {}
                        THEN DictUpdate(<<>>, custom_claims)
                        ELSE <<>>
         IN [raised |-> "",
             jwt |-> JwtEncode(DictUpdate(payload,
                                          RequiredClaims(config, user_id, role, iat, exp)),
                               config.supabase_jwt_secret, "HS256")]

\* Custom claims a caller may pass: harmless ones and ones naming required claims.
CustomKeys == {"sub", "role", "aud", "exp", "org"}

CustomValue(k) ==
    CASE k = "sub" -> <<"x">>
      [] k = "role" -> "service_role"
      [] k = "aud" -> "anon"
      [] k = "exp" -> 0 - 5
      [] OTHER -> "acme"

CustomClaimDicts == {[k \in K |-> CustomValue(k)] : K \in SUBSET CustomKeys}

\* The calls of generate_token tried: any user id, role and expiry_seconds given or left
\* to their defaults, expiry_seconds also zero and negative.
MintCalls ==
    {c \in [user_id : Strings(MaxIdLen), role_given : BOOLEAN,
            role : {DefaultRole, "service_role"}, expiry_given : BOOLEAN,
            expiry_seconds : (0 - 1)..MaxValidity, custom_claims : CustomClaimDicts] :
        /\ ~c.role_given => c.role = DefaultRole
        /\ ~c.expiry_given => c.expiry_seconds = 0}

NoMintCall ==
    [user_id |-> <<>>, role_given |-> FALSE, role |-> DefaultRole, expiry_given |-> FALSE,
     expiry_seconds |-> 0, custom_claims |-> <<>>]

\* The values the parameters take in call c.
RoleOf(c) == IF c.role_given THEN c.role ELSE DefaultRole

ValidityOf(c) == IF c.expiry_given THEN c.expiry_seconds ELSE DefaultExpiry

NotMinted == [called |-> FALSE, raised |-> "", jwt |-> NoJwt]

\* ----------------------------------------------------------- construction
\* The entry points that build a client for a user id.
EntryPoints ==
    {"get_client", "ScopedClient", "AsyncScopedClient.create", "ScopedClientBuilder.build",
     "AsyncScopedClientBuilder.build"}

\* build() of a builder passes what it collected to the wrapper class.
BuildTarget(api) ==
    IF api = "ScopedClientBuilder.build" THEN "ScopedClient"
    ELSE IF api = "AsyncScopedClientBuilder.build" THEN "AsyncScopedClient.create"
    ELSE api

\* Mutant: the entry point does not look at the user id.
CheckUserId_Skipped(user_id) == ""

\* if not user_id or not user_id.strip(): raise ClientError("user_id cannot be empty")
CheckUserId(user_id) == IF Blank(user_id) THEN "ClientError" ELSE ""

\* The construction calls tried: api is what the caller invoked, entry the function
\* running; config_given tells whether a Config was passed (config is not None).
CtorCalls ==
    [api : EntryPoints, entry : EntryPoints, user_id : Strings(MaxIdLen),
     config_given : BOOLEAN, expiry_seconds : (0 - 1)..MaxValidity]

CtorSteps == {"idle", "called", "validated", "configured", "minted", "done", "raised"}

\* A call with the progress it has made: whether load_config, generate_token and
\* create_client / acreate_client have run, and the error raised ("" when none).
CtorState(call, step, raised, loaded, minted_, built) ==
    [call |-> call, step |-> step, raised |-> raised, config_loaded |-> loaded,
     token_minted |-> minted_, client_built |-> built]

NoCtor ==
    CtorState([api |-> "get_client", entry |-> "get_client", user_id |-> <<>>,
               config_given |-> TRUE, expiry_seconds |-> 1],
              "idle", "", FALSE, FALSE, FALSE)

\* ----------------------------------------------------------------- builders
BuilderKinds == {"ScopedClientBuilder", "AsyncScopedClientBuilder"}

DefaultThreshold == 60

\* custom_claims = None
NoClaims == <<>>

\* ScopedClientBuilder.__init__ / AsyncScopedClientBuilder.__init__: the options start at
\* their defaults.
NewBuilder(kind) ==
    [kind |-> kind, role |-> DefaultRole, expiry_seconds |-> DefaultExpiry,
     custom_claims |-> NoClaims, refresh_threshold_seconds |-> DefaultThreshold]

\* The setters: each assigns its option on the builder b and returns b.
with_role(b, role) == [b EXCEPT !.role = role]

\* Mutant: with_expiry also moves the refresh threshold.
with_expiry_AndThreshold(b, seconds) ==
    [b EXCEPT !.expiry_seconds = seconds, !.refresh_threshold_seconds = seconds]

with_expiry(b, seconds) == [b EXCEPT !.expiry_seconds = seconds]

with_claims(b, claims) == [b EXCEPT !.custom_claims = claims]

with_refresh_threshold(b, seconds) == [b EXCEPT !.refresh_threshold_seconds = seconds]

\* The values the setters are called with.
BuilderRoles == {DefaultRole, "service_role"}

BuilderExpiries == 0..MaxValidity

BuilderClaims == {[k \in K |-> CustomValue(k)] : K \in {{}, {"org"}, {"team"}}}

\* build(): the call of ScopedClient(...) / AsyncScopedClient.create(...) with the
\* options collected, which the wrapper stores as its own.
build(b) ==
    [class |-> BuildTarget(b.kind \o ".build"), role |-> b.role,
     expiry_seconds |-> b.expiry_seconds, custom_claims |-> b.custom_claims,
     refresh_threshold_seconds |-> b.refresh_threshold_seconds]

\* A builder in use: the object b, what the setters called so far should have left in it
\* (expected), how many were called, whether each returned the builder it was called on,
\* and what build() gave: "" before it, "wrapper" with the wrapper, or the error raised.
BuilderState(b, step) ==
    [b |-> b, expected |-> b, setters |-> 0, returned_self |-> TRUE, step |-> step,
     built |-> "", wrapper |-> build(b)]

NoBuilder == BuilderState(NewBuilder("ScopedClientBuilder"), "idle")

\* ------------------------------------------------------ TokenRefreshProxy
\* A value is a sequence of layers <<kind, a, b>>: the last layer is an underlying value
\* (<<"obj", class, "">>, <<"method", class, name>>, <<"prim", type, "">> or
\* <<"error", exception, "">>), each layer before it a TokenRefreshProxy
\* (<<"proxy", token manager, "">>) or a wrapper function made by _wrap_callable
\* (<<"wrapper", token manager, "">>) around the rest.
Obj(class) == <<<<"obj", class, "">>>>

Method(class, name) == <<<<"method", class, name>>>>

Prim(type) == <<<<"prim", type, "">>>>

Raised(exception) == <<<<"error", exception, "">>>>

Kind(v) == v[1][1]

\* The token manager a proxy or wrapper is bound to, and what it wraps.
ManagerOf(v) == v[1][2]

TargetOf(v) == Tail(v)

\* The underlying value below all proxy and wrapper layers.
Underlying(v) == <<v[Len(v)]>>

\* TokenRefreshProxy(target, token_manager)
TokenRefreshProxy(target, token_manager) == <<<<"proxy", token_manager, "">>>> \o target

\* Token managers: one with a plain ensure_valid_token, one with an async one.
Managers == {"sync_manager", "async_manager"}

\* inspect.iscoroutinefunction(token_manager.ensure_valid_token)
IsAsyncManager(token_manager) == token_manager = "async_manager"

\* The classes of the underlying client, as in the mocks of test_proxy.py: a client with
\* plain attributes, a property holding an object, a plain and an async method; tables
\* and queries for fluent chains, the query of the async client with an async execute.
Classes == {"Client", "AsyncClient", "Auth", "Table", "AsyncTable", "Query", "AsyncQuery"}

Attributes(class) ==
    CASE class = "Client" -> {"name", "count", "auth", "table", "rpc"}
      [] class = "AsyncClient" -> {"name", "count", "auth", "table", "rpc"}
      [] class = "Auth" -> {"session", "sign_out"}
      [] class = "Table" -> {"select"}
      [] class = "AsyncTable" -> {"select"}
      [] class = "Query" -> {"columns", "execute"}
      [] class = "AsyncQuery" -> {"columns", "execute"}

\* getattr(target, name) on an underlying object.
ObjGetAttr(class, name) ==
    CASE name = "name" -> Prim("str")
      [] name = "count" -> Prim("int")
      [] name = "columns" -> Prim("str")
      [] name = "session" -> Prim("NoneType")
      [] name = "auth" -> Obj("Auth")
      [] OTHER -> Method(class, name)

\* inspect.iscoroutinefunction of a method of the underlying classes.
AsyncMethod(class, name) ==
    \/ name = "rpc"
    \/ name = "sign_out"
    \/ (class = "AsyncQuery" /\ name = "execute")

\* What a method of the underlying classes returns.
MethodResult(class, name) ==
    CASE name = "table" -> IF class = "AsyncClient" THEN Obj("AsyncTable") ELSE Obj("Table")
      [] name = "select" -> IF class = "AsyncTable" THEN Obj("AsyncQuery") ELSE Obj("Query")
      [] name = "execute" -> Prim("dict")
      [] name = "rpc" -> Prim("dict")
      [] name = "sign_out" -> Prim("NoneType")

\* isinstance(value, _PRIMITIVES)
PrimitiveTypes ==
    {"str", "int", "float", "bool", "bytes", "NoneType", "list", "dict", "tuple", "set"}

IsPrimitive(v) == Kind(v) = "prim" /\ v[1][2] \in PrimitiveTypes

\* callable(value): methods and wrapper functions are; a TokenRefreshProxy has no
\* __call__, so it is not.
Callable(v) == Kind(v) \in {"method", "wrapper"}

\* inspect.iscoroutinefunction(func): async_wrapper is an async def, sync_wrapper is not,
\* and _wrap_callable makes an async_wrapper exactly around coroutine functions.
IsCoroutineFunction(func) == AsyncMethod(func[Len(func)][2], func[Len(func)][3])

\* TokenRefreshProxy._wrap_callable(func)
WrapCallable(func, token_manager) == <<<<"wrapper", token_manager, "">>>> \o func

\* Mutant: results of calls are handed out as they are.
WrapResult_Never(result, token_manager) == result

\* Mutant: results of calls are wrapped whatever they are.
WrapResult_Always(result, token_manager) == TokenRefreshProxy(result, token_manager)

\* The end of async_wrapper / sync_wrapper: a primitive result is returned as it is, any
\* other inside a new TokenRefreshProxy.
WrapResult(result, token_manager) ==
    IF IsPrimitive(result) THEN result ELSE TokenRefreshProxy(result, token_manager)

\* getattr(value, name): TokenRefreshProxy.__getattr__ for a proxy, whose target may be a
\* proxy again; the attribute of the object otherwise.
RECURSIVE GetAttr(_, _)
GetAttr(v, name) ==
    IF Kind(v) = "proxy"
    THEN LET attr == GetAttr(TargetOf(v), name)
         IN IF Callable(attr) THEN WrapCallable(attr, ManagerOf(v))
            ELSE IF IsPrimitive(attr) THEN attr
            ELSE TokenRefreshProxy(attr, ManagerOf(v))
    ELSE ObjGetAttr(v[1][2], name)

\* Mutant: the wrapper checks validity whatever the kinds of function and manager.
ChecksValidity_Always(func, token_manager) == TRUE

\* Mutant: only async_wrapper checks validity.
ChecksValidity_AsyncOnly(func, token_manager) ==
    IsCoroutineFunction(func) /\ IsAsyncManager(token_manager)

\* Does the wrapper around func call ensure_valid_token?  async_wrapper: if
\* is_async_manager; sync_wrapper: if not is_async_manager.
ChecksValidity(func, token_manager) ==
    IF IsCoroutineFunction(func)
    THEN IsAsyncManager(token_manager)
    ELSE ~IsAsyncManager(token_manager)

\* What invoking func does, in order: <<"check", manager>> for a call of
\* ensure_valid_token, <<"call", "">> for the call of the underlying method.
RECURSIVE Events(_)
Events(func) ==
    IF Kind(func) = "wrapper"
    THEN (IF ChecksValidity(TargetOf(func), ManagerOf(func))
          THEN <<<<"check", ManagerOf(func)>>>> ELSE <<>>) \o Events(TargetOf(func))
    ELSE <<<<"call", "">>>>

\* What invoking func returns when nothing raises.
RECURSIVE Result(_)
Result(func) ==
    IF Kind(func) = "wrapper"
    THEN WrapResult(Result(TargetOf(func)), ManagerOf(func))
    ELSE MethodResult(func[1][2], func[1][3])

\* TokenRefreshProxy layers put around an underlying client: n of them.
RECURSIVE Wrapped(_, _, _)
Wrapped(target, token_manager, n) ==
    IF n = 0 THEN target
    ELSE TokenRefreshProxy(Wrapped(target, token_manager, n - 1), token_manager)

\* Proxy layers at the outside of a value.
RECURSIVE Layers(_)
Layers(v) == IF Kind(v) \in {"proxy", "wrapper"} THEN 1 + Layers(TargetOf(v)) ELSE 0

\* A caller holding value held, which it got from the proxy root: it reads attributes of
\* proxies and invokes wrappers.  While an invocation of func runs, events are the steps
\* it still has to take.  Counted: the calls of ensure_valid_token (checks), those of the
\* invocation in progress that returned (inv_checks), the calls of underlying methods, the
\* invocations of plain and of async callables, and the returns to root; raised is the
\* exception the token manager or the underlying method raised in the last invocation.
ProxyState(root, held, stage) ==
    [root |-> root, held |-> held, stage |-> stage, func |-> held, events |-> <<>>,
     checks |-> 0, inv_checks |-> 0, calls |-> 0, sync_invocations |-> 0,
     async_invocations |-> 0, restarts |-> 0, raised |-> ""]

\* What ensure_valid_token raises when it fails.
ManagerErrors == {"TokenError", "ConfigurationError"}

\* Mutant: __getattr__ checks validity when it hands out a method.
GetAttrChecks_OnMethods(v, name) == IF Callable(GetAttr(v, name)) THEN 1 ELSE 0

\* The calls of ensure_valid_token __getattr__ makes: it has none.
GetAttrChecks(v, name) == 0

\* Mutant: the wrapper catches the exception and returns None.
WrapperRaises_Swallowed(e) == Prim("NoneType")

\* What the caller of a wrapper function gets when ensure_valid_token or func raises e:
\* async_wrapper and sync_wrapper have no try block, so e itself.
WrapperRaises(e) == Raised(e)

NoProxy == ProxyState(Obj("Client"), Obj("Client"), "idle")

\* What the underlying client's operations raise.
ClientErrors == {"APIError"}

NoDelegated == [t \in Threads |-> [raised |-> "", received |-> ""]]

\* ------------------------------------------------------- staleness checks
\* Mutant: the fast path also returns on the boundary current_time + threshold = _token_exp.
SyncFresh_Inclusive(ct, w) == ct + refresh_threshold[w] <= token_exp[w]

\* ScopedClient._ensure_valid_token, fast path: current_time + threshold < _token_exp.
SyncFresh(ct, w) == ct + refresh_threshold[w] < token_exp[w]

\* Mutant: the re-check misses the boundary current_time + threshold = _token_exp.
SyncStale_Strict(ct, w) == ct + refresh_threshold[w] > token_exp[w]

\* ScopedClient._ensure_valid_token, locked re-check: current_time + threshold >= _token_exp.
SyncStale(ct, w) == ct + refresh_threshold[w] >= token_exp[w]

\* Mutant: _needs_refresh never asks for a refresh.
NeedsRefresh_Never(tm, w) == FALSE

\* Mutant: the comparison of _needs_refresh is turned around.
NeedsRefresh_Flipped(tm, w) == tm + refresh_threshold[w] * Res <= token_exp[w] * Res

\* Mutant: _needs_refresh misses the boundary time.time() + threshold = _token_exp, and
\* so does the re-check of ScopedClient.
NeedsRefresh_Strict(tm, w) == tm + refresh_threshold[w] * Res > token_exp[w] * Res

\* AsyncScopedClient._needs_refresh: time.time() + threshold >= _token_exp, with the float
\* clock reading tm (in ticks).
NeedsRefresh(tm, w) == tm + refresh_threshold[w] * Res >= token_exp[w] * Res

\* The clock as a staleness check of wrapper w reads it.
ReadClock(w) == IF flavor[w] = "sync" THEN Sec(now) ELSE now

\* Mutant: ScopedClient.realtime forgets to call _ensure_valid_token.
Guarded_RealtimeForgotten(f, a) ==
    IF f = "sync"
    THEN a \in {Ensure, "table", "storage", "functions", "rpc", "auth", "__getattr__"}
    ELSE a = Ensure

\* Does operation a of a wrapper of flavor f call _ensure_valid_token before it delegates?
Guarded(f, a) ==
    IF f = "sync"
    THEN a \in {Ensure, "table", "storage", "functions", "rpc", "auth", "realtime",
                "__getattr__"}
    ELSE a = Ensure

\* ------------------------------------------------------------------ locks
\* Mutant: a second caller may enter the block while the holder has not started to
\* regenerate yet.
LockFree_Early(w) == IF lock[w] = 0 THEN TRUE ELSE pc[lock[w]] = "ev_recheck"

\* Mutant: entering the block does not wait for the lock.
LockFree_Always(w) == TRUE

\* Mutant: one lock for all the wrappers.
LockFree_Shared(w) == \A x \in Wrappers : lock[x] = 0

\* Lock.acquire succeeds only on an unlocked lock.
LockFree(w) == lock[w] = 0

\* Mutant: leaving the block normally keeps the lock.
ExitLock_Keep(w) == lock

\* "with self._lock" / "async with self._lock": the lock after the block ends normally.
ExitLock(w) == [lock EXCEPT ![w] = 0]

\* Mutant: acquire() / release() without try-finally, so an exception keeps the lock held.
ExitLockOnRaise_Keep(w) == lock

\* The same block left by an exception: the context manager releases the lock.
ExitLockOnRaise(w) == [lock EXCEPT ![w] = 0]

\* Mutant: every statement of _ensure_valid_token and _refresh_token is a suspension
\* point.
Suspended_Anywhere(u) == TRUE

\* Coroutines of one event loop run one at a time, from one suspension point to the next;
\* nothing in _ensure_valid_token suspends except waiting for a held asyncio.Lock.
\* Threads run whenever they are scheduled.
Suspended(u) == pc[u] \in {"idle", "done"} \/ (pc[u] = "ev_lock" /\ lock[owner[u]] # 0)

MayRun(t) ==
    flavor[owner[t]] = "async" =>
        \A u \in Threads \ {t} : owner[u] = owner[t] => Suspended(u)

\* ----------------------------------------------------------------- state
TypeOK ==
    /\ now \in 0..MaxTick
    /\ flavor \in [Wrappers -> Flavors]
    /\ expiry_seconds \in [Wrappers -> Validities]
    /\ refresh_threshold \in [Wrappers -> Thresholds]
    /\ token_exp \in [Wrappers -> Int]
    /\ \A w \in Wrappers : client[w] \in 1..Len(clients[w])
    /\ lock \in [Wrappers -> {0} \cup Threads]
    /\ surface \subseteq AllOperations
    /\ owner \in [Threads -> Wrappers]
    /\ pc \in [Threads -> {"idle", "done", "ev_fast", "ev_lock", "ev_recheck", "cc_mint",
                           "cc_exp", "cc_client", "deleg"}]
    /\ acc \in [Threads -> AllOperations]
    /\ path \in [Threads -> {"none", "fresh", "stale", "fast", "rechecked", "refreshed",
                             "raised"}]
    /\ waited \in [Threads -> BOOLEAN]
    /\ regens \in [Wrappers -> Nat]
    /\ fails \in [Wrappers -> 0..MaxFails]
    /\ first_exp \in [Wrappers -> Int]
    /\ pending \in [Wrappers -> BOOLEAN]
    /\ mint_args \in MintCalls
    /\ minted.called \in BOOLEAN
    /\ minted.raised \in {"", "TokenError"}
    /\ ctor.call \in CtorCalls
    /\ ctor.step \in CtorSteps
    /\ ctor.raised \in {"", "ClientError", "ConfigurationError", "TokenError"}
    /\ ctor.config_loaded \in BOOLEAN
    /\ ctor.token_minted \in BOOLEAN
    /\ ctor.client_built \in BOOLEAN
    /\ builder.b.kind \in BuilderKinds
    /\ builder.step \in {"idle", "open", "closed"}
    /\ builder.setters \in 0..MaxSetters
    /\ builder.built \in {"", "wrapper", "TokenError"}
    /\ px.stage \in {"idle", "hold", "run"}
    /\ px.checks \in Nat /\ px.calls \in Nat /\ px.inv_checks \in Nat
    /\ px.restarts \in 0..MaxRestarts
    /\ \A t \in Threads : /\ delegated[t].raised \in {""} \cup ClientErrors
                          /\ delegated[t].received \in {""} \cup ClientErrors

\* The wrappers right after construction (__init__ / create), idle for age seconds since:
\* the clock reads 0 now, so the first credential was minted at -age.
Constructed(f, v, th, age) ==
    /\ now = 0
    /\ flavor = [w \in Wrappers |-> f]
    /\ expiry_seconds = [w \in Wrappers |-> v]
    /\ refresh_threshold = [w \in Wrappers |-> th]
    /\ token_exp = [w \in Wrappers |-> ExpiryAt(0 - age * Res, v)]
    /\ clients = [w \in Wrappers |-> <<GenerateToken(UserId(w), Role(w), v, CustomClaims(w),
                                                     0 - age * Res)>>]
    /\ client = [w \in Wrappers |-> 1]
    /\ lock = [w \in Wrappers |-> 0]
    /\ pc = [t \in Threads |-> "idle"]
    /\ acc = [t \in Threads |-> Ensure]
    /\ current_time = [t \in Threads |-> 0]
    /\ token = [t \in Threads |-> NoToken]
    /\ path = [t \in Threads |-> "none"]
    /\ waited = [t \in Threads |-> FALSE]
    /\ regens = [w \in Wrappers |-> 0]
    /\ fails = [w \in Wrappers |-> 0]
    /\ first_exp = [w \in Wrappers |-> ExpiryAt(0 - age * Res, v)]
    /\ pending = [w \in Wrappers |-> FALSE]

\* Every caller works on wrapper w1; as in the test suites, a ScopedClient is used through
\* its storage accessor and an AsyncScopedClient through _ensure_valid_token.
Init ==
    /\ \E f \in Flavors, v \in Validities, th \in Thresholds, age \in Ages :
          /\ Constructed(f, v, th, age)
          /\ surface = IF f = "sync" THEN {"storage"} ELSE {Ensure}
    /\ owner = [t \in Threads |-> "w1"]
    /\ mint_args = NoMintCall
    /\ minted = NotMinted
    /\ px = NoProxy
    /\ builder = NoBuilder
    /\ delegated = NoDelegated
    /\ ctor = NoCtor

\* As Init, for each operation of the wrapper in turn: the callers all use that one.
\* The wrapper has the refresh threshold 0; which operations run the ensure-valid check
\* does not depend on it.
InitSurface ==
    /\ \E f \in Flavors, v \in Validities, age \in Ages :
          /\ Constructed(f, v, 0, age)
          /\ \E a \in {Ensure} \cup Accessors(f) : surface = {a}
    /\ owner = [t \in Threads |-> "w1"]
    /\ mint_args = NoMintCall
    /\ minted = NotMinted
    /\ px = NoProxy
    /\ builder = NoBuilder
    /\ delegated = NoDelegated
    /\ ctor = NoCtor

\* generate_token is about to be called directly, with any of the argument lists; no
\* wrapper is in use.
InitMint ==
    /\ Constructed("sync", 1, 0, 0)
    /\ surface = {}
    /\ owner = [t \in Threads |-> "w1"]
    /\ mint_args \in MintCalls
    /\ minted = NotMinted
    /\ px = NoProxy
    /\ builder = NoBuilder
    /\ delegated = NoDelegated
    /\ ctor = NoCtor

\* An entry point has just been called to build a client, with any user id; no wrapper
\* exists yet.
InitCtor ==
    /\ Constructed("sync", 1, 0, 0)
    /\ surface = {}
    /\ owner = [t \in Threads |-> "w1"]
    /\ mint_args = NoMintCall
    /\ minted = NotMinted
    /\ px = NoProxy
    /\ builder = NoBuilder
    /\ delegated = NoDelegated
    /\ \E c \in CtorCalls :
          /\ c.entry = c.api
          /\ ctor = CtorState(c, "called", "", FALSE, FALSE, FALSE)

\* --------------------------------------------------------------- actions
\* The clock advances.
Tick ==
    /\ now < MaxTick
    /\ now' = now + 1
    /\ UNCHANGED <<wrapperVars, token_exp, clients, client, lock, pc, acc, current_time,
                   token, path, waited, regens, fails, first_exp, pending>>

\* now + refresh_threshold < recorded expiry, on the real clock.
FreshNow(w) == now + refresh_threshold[w] * Res < token_exp[w] * Res

\* Caller t starts operation a on its wrapper.  A guarded operation enters
\* _ensure_valid_token, whose first statement reads the clock; the others go straight to
\* the underlying client.
Call(t, a) ==
    LET w == owner[t] IN
    /\ pc[t] = "idle"
    /\ a \in surface
    /\ a \in {Ensure} \cup Accessors(flavor[w])
    /\ MayRun(t)
    /\ acc' = [acc EXCEPT ![t] = a]
    /\ path' = [path EXCEPT ![t] = IF FreshNow(w) THEN "fresh" ELSE "stale"]
    /\ IF Guarded(flavor[w], a)
       THEN /\ pc' = [pc EXCEPT ![t] = "ev_fast"]
            /\ current_time' = [current_time EXCEPT ![t] = ReadClock(w)]
       ELSE /\ pc' = [pc EXCEPT ![t] = "deleg"]
            /\ current_time' = current_time
    /\ UNCHANGED <<now, wrapperVars, token_exp, clients, client, lock, token, waited,
                   regens, fails, first_exp, pending>>

\* _ensure_valid_token returns to the operation that called it.
AfterEnsure(t) == IF acc[t] = Ensure THEN "done" ELSE "deleg"

\* Mutant: the fast path is taken only while the lock is free.
FastFresh_LockFree(t) ==
    /\ lock[owner[t]] = 0
    /\ IF flavor[owner[t]] = "sync"
       THEN SyncFresh(current_time[t], owner[t])
       ELSE ~NeedsRefresh(current_time[t], owner[t])

\* What the fast-path test finds.
FastFresh(t) ==
    IF flavor[owner[t]] = "sync"
    THEN SyncFresh(current_time[t], owner[t])
    ELSE ~NeedsRefresh(current_time[t], owner[t])

\* The fast path: return without the lock when fresh, otherwise go for the lock.
FastPath(t) ==
    /\ pc[t] = "ev_fast"
    /\ IF FastFresh(t)
       THEN /\ pc' = [pc EXCEPT ![t] = AfterEnsure(t)]
            /\ path' = [path EXCEPT ![t] = "fast"]
       ELSE /\ pc' = [pc EXCEPT ![t] = "ev_lock"]
            /\ path' = path
    /\ current_time' = [current_time EXCEPT ![t] = 0]
    /\ UNCHANGED <<now, wrapperVars, token_exp, clients, client, lock, acc, token, waited,
                   regens, fails, first_exp, pending>>

\* with self._lock / async with self._lock: enter the block; its first statement reads
\* the clock again for the re-check.
Acquire(t) ==
    LET w == owner[t] IN
    /\ pc[t] = "ev_lock"
    /\ MayRun(t)
    /\ LockFree(w)
    /\ lock' = [lock EXCEPT ![w] = t]
    /\ current_time' = [current_time EXCEPT ![t] = ReadClock(w)]
    /\ pc' = [pc EXCEPT ![t] = "ev_recheck"]
    /\ UNCHANGED <<now, wrapperVars, token_exp, clients, client, acc, token, path, waited,
                   regens, fails, first_exp, pending>>

\* Mutant: no double check, every caller that gets the lock regenerates.
RecheckStale_Always(t) == TRUE

\* What the locked re-check finds.
RecheckStale(t) ==
    IF flavor[owner[t]] = "sync"
    THEN SyncStale(current_time[t], owner[t])
    ELSE NeedsRefresh(current_time[t], owner[t])

\* The double check: invoke the regeneration when still stale, otherwise leave the block.
Recheck(t) ==
    LET w == owner[t] IN
    /\ pc[t] = "ev_recheck"
    /\ IF RecheckStale(t)
       THEN /\ pc' = [pc EXCEPT ![t] = "cc_mint"]
            /\ regens' = [regens EXCEPT ![w] = @ + 1]
            /\ UNCHANGED <<lock, path>>
       ELSE /\ pc' = [pc EXCEPT ![t] = AfterEnsure(t)]
            /\ path' = [path EXCEPT ![t] = "rechecked"]
            /\ lock' = ExitLock(w)
            /\ UNCHANGED regens
    /\ current_time' = [current_time EXCEPT ![t] = 0]
    /\ UNCHANGED <<now, wrapperVars, token_exp, clients, client, acc, token, waited,
                   fails, first_exp, pending>>

\* A regeneration raises in caller t: the exception leaves the locked block and the call;
\* the callers blocked on the lock at that moment were waiting for this attempt.
Raise(t) ==
    LET w == owner[t] IN
    /\ fails[w] < MaxFails
    /\ fails' = [fails EXCEPT ![w] = @ + 1]
    /\ lock' = ExitLockOnRaise(w)
    /\ pc' = [pc EXCEPT ![t] = "done"]
    /\ path' = [path EXCEPT ![t] = "raised"]
    /\ waited' = [u \in Threads |->
                    waited[u] \/ (u # t /\ owner[u] = w /\ pc[u] = "ev_lock")]
    /\ token' = [token EXCEPT ![t] = NoToken]

\* _create_client / _refresh_token: token = generate_token(...), minted at the clock's
\* reading at that moment.
Mint(t) ==
    LET w == owner[t] IN
    /\ pc[t] = "cc_mint"
    /\ LET id == StoredIdentity(w)
       IN token' = [token EXCEPT ![t] = GenerateToken(id.user_id, id.role,
                                                      expiry_seconds[w],
                                                      id.custom_claims, now)]
    /\ pc' = [pc EXCEPT ![t] = "cc_exp"]
    /\ UNCHANGED <<now, wrapperVars, token_exp, clients, client, lock, acc, current_time,
                   path, waited, regens, fails, first_exp, pending>>

\* generate_token raises (signing fails).
MintRaises(t) ==
    /\ pc[t] = "cc_mint"
    /\ Raise(t)
    /\ UNCHANGED <<now, wrapperVars, token_exp, clients, client, acc, current_time,
                   regens, first_exp, pending>>

\* self._token_exp = int(time.time()) + self._expiry_seconds
RecordExpiry(t) ==
    LET w == owner[t] IN
    /\ pc[t] = "cc_exp"
    /\ token_exp' = [token_exp EXCEPT ![w] = ExpiryAt(now, expiry_seconds[w])]
    /\ pending' = [pending EXCEPT ![w] = TRUE]
    /\ pc' = [pc EXCEPT ![t] = "cc_client"]
    /\ UNCHANGED <<now, wrapperVars, clients, client, lock, acc, current_time, token,
                   path, waited, regens, fails, first_exp>>

\* Mutant: the regeneration rewrites the header of the current client instead of building
\* a new client.
NewClient_InPlace(w, tok) == [clients[w] EXCEPT ![client[w]] = tok]

\* create_client(url, key, options): a new client object whose Authorization header
\* carries tok; the clients built before stay as they are.
NewClient(w, tok) == Append(clients[w], tok)

\* Mutant: the regeneration forgets to store the new header.
PatchHeader_Skip(w, tok) == clients[w]

\* self._client.options.headers["Authorization"] = "Bearer " + tok, on the current client.
PatchHeader(w, tok) == [clients[w] EXCEPT ![client[w]] = tok]

\* ScopedClient._create_client: self._client = create_client(..., headers with the new
\* token); a new client object replaces the current one, then the locked block ends.
CreateClient(t) ==
    LET w == owner[t] IN
    /\ pc[t] = "cc_client"
    /\ flavor[w] = "sync"
    /\ clients' = [clients EXCEPT ![w] = NewClient(w, token[t])]
    /\ client' = [client EXCEPT ![w] = Len(clients[w]) + 1]
    /\ pending' = [pending EXCEPT ![w] = FALSE]
    /\ lock' = ExitLock(w)
    /\ pc' = [pc EXCEPT ![t] = AfterEnsure(t)]
    /\ path' = [path EXCEPT ![t] = "refreshed"]
    /\ token' = [token EXCEPT ![t] = NoToken]
    /\ UNCHANGED <<now, wrapperVars, token_exp, acc, current_time, waited, regens, fails,
                   first_exp>>

\* ScopedClient._create_client: create_client raises (the client cannot be built).
CreateClientRaises(t) ==
    /\ pc[t] = "cc_client"
    /\ flavor[owner[t]] = "sync"
    /\ Raise(t)
    /\ UNCHANGED <<now, wrapperVars, token_exp, clients, client, acc, current_time,
                   regens, first_exp, pending>>

\* AsyncScopedClient._refresh_token: self._client.options.headers["Authorization"] is
\* overwritten on the one client object, then the locked block ends.
SetHeader(t) ==
    LET w == owner[t] IN
    /\ pc[t] = "cc_client"
    /\ flavor[w] = "async"
    /\ clients' = [clients EXCEPT ![w] = PatchHeader(w, token[t])]
    /\ pending' = [pending EXCEPT ![w] = FALSE]
    /\ lock' = ExitLock(w)
    /\ pc' = [pc EXCEPT ![t] = AfterEnsure(t)]
    /\ path' = [path EXCEPT ![t] = "refreshed"]
    /\ token' = [token EXCEPT ![t] = NoToken]
    /\ UNCHANGED <<now, wrapperVars, token_exp, client, acc, current_time, waited, regens,
                   fails, first_exp>>

\* The operation reads self._client and delegates to it (return self._client.<name>).
Delegate(t) ==
    /\ pc[t] = "deleg"
    /\ pc' = [pc EXCEPT ![t] = "done"]
    /\ UNCHANGED <<now, wrapperVars, token_exp, clients, client, lock, acc, current_time,
                   token, path, waited, regens, fails, first_exp, pending>>

Step(t) ==
    \/ \E a \in AllOperations : Call(t, a)
    \/ FastPath(t)
    \/ Acquire(t)
    \/ Recheck(t)
    \/ Mint(t)
    \/ MintRaises(t)
    \/ RecordExpiry(t)
    \/ CreateClient(t)
    \/ CreateClientRaises(t)
    \/ SetHeader(t)
    \/ Delegate(t)

Next == Tick \/ \E t \in Threads : Step(t)

Spec == Init /\ [][Next]_vars

SpecSurface == InitSurface /\ [][Next]_vars

\* As Init, with a validity of one second and the refresh threshold 0.
InitFair ==
    /\ \E f \in Flavors, age \in Ages :
          /\ Constructed(f, 1, 0, age)
          /\ surface = IF f = "sync" THEN {"storage"} ELSE {Ensure}
    /\ owner = [t \in Threads |-> "w1"]
    /\ mint_args = NoMintCall
    /\ minted = NotMinted
    /\ px = NoProxy
    /\ builder = NoBuilder
    /\ delegated = NoDelegated
    /\ ctor = NoCtor

\* Fair scheduling: a thread or coroutine that can keep taking its next step takes it; a
\* regeneration in progress ends, by returning or by raising.
SpecFair == InitFair /\ [][Next]_vars /\ \A t \in Threads : WF_vars(Step(t))

\* Two wrappers in use at once, with the refresh threshold 0: the first caller works on
\* w1, the others on w2.
InitIndependent ==
    /\ \E f \in Flavors, v \in Validities, age \in Ages :
          /\ Constructed(f, v, 0, age)
          /\ surface = IF f = "sync" THEN {"storage"} ELSE {Ensure}
    /\ owner = [t \in Threads |-> IF t = 1 THEN "w1" ELSE "w2"]
    /\ mint_args = NoMintCall
    /\ minted = NotMinted
    /\ px = NoProxy
    /\ builder = NoBuilder
    /\ delegated = NoDelegated
    /\ ctor = NoCtor

SpecIndependent == InitIndependent /\ [][Next]_vars

\* Mutant: the accessor catches what the client raises and raises the library's error.
Propagate_Replaced(e) == "ClientError"

\* What the caller of an accessor gets when self._client.<name> raises e: the accessors
\* have no try block, so e itself.
Propagate(e) == e

\* The underlying client's operation raises: the exception leaves the accessor.
DelegateRaises(t) ==
    /\ pc[t] = "deleg"
    /\ pc' = [pc EXCEPT ![t] = "done"]
    /\ \E e \in ClientErrors :
          delegated' = [delegated EXCEPT ![t] = [raised |-> e, received |-> Propagate(e)]]
    /\ UNCHANGED <<now, flavor, expiry_seconds, refresh_threshold, surface, owner,
                   mint_args, minted, ctor, px, builder, token_exp, clients, client, lock, acc,
                   current_time, token, path, waited, regens, fails, first_exp, pending>>

\* As InitSurface, for the operations that delegate to the underlying client and a
\* validity of one second; the callers of an AsyncScopedClient use ensure_valid_token as
\* well.
InitDelegation ==
    /\ \E f \in Flavors, age \in Ages :
          /\ Constructed(f, 1, 0, age)
          /\ \E a \in Accessors(f) :
                surface = IF f = "sync" THEN {a} ELSE {a, Ensure}
    /\ owner = [t \in Threads |-> "w1"]
    /\ mint_args = NoMintCall
    /\ minted = NotMinted
    /\ px = NoProxy
    /\ builder = NoBuilder
    /\ delegated = NoDelegated
    /\ ctor = NoCtor

NextDelegation == Next \/ \E t \in Threads : DelegateRaises(t)

\* The wrappers in use with an underlying client whose operations may fail.
SpecDelegation == InitDelegation /\ [][NextDelegation]_vars

\* The direct call of generate_token with the arguments mint_args.
CallGenerateToken ==
    /\ ~minted.called
    /\ LET r == generate_token(Config, mint_args.user_id, RoleOf(mint_args),
                               ValidityOf(mint_args), mint_args.custom_claims, now)
       IN minted' = [called |-> TRUE, raised |-> r.raised, jwt |-> r.jwt]
    /\ UNCHANGED <<now, flavor, expiry_seconds, refresh_threshold, token_exp, clients,
                   client, lock, surface, owner, pc, acc, current_time, token, path,
                   waited, regens, fails, first_exp, pending, mint_args, ctor, px,
                   builder, delegated>>

NextMint == Tick \/ CallGenerateToken

SpecMint == InitMint /\ [][NextMint]_vars

\* What a step of a construction call leaves alone.
nonCtorVars == <<now, flavor, expiry_seconds, refresh_threshold, token_exp, clients,
                 client, lock, surface, owner, pc, acc, current_time, token, path,
                 waited, regens, fails, first_exp, pending, mint_args, minted, px,
                 builder, delegated>>

\* ScopedClientBuilder.build / AsyncScopedClientBuilder.build: call the wrapper class
\* with the collected user id and options.
BuilderBuild ==
    /\ ctor.step = "called"
    /\ BuildTarget(ctor.call.entry) # ctor.call.entry
    /\ ctor' = [ctor EXCEPT !.call.entry = BuildTarget(@)]
    /\ UNCHANGED nonCtorVars

\* get_client / ScopedClient.__init__ / AsyncScopedClient.create: the first statement
\* checks the user id.
CtorValidate ==
    /\ ctor.step = "called"
    /\ BuildTarget(ctor.call.entry) = ctor.call.entry
    /\ LET err == CheckUserId(ctor.call.user_id)
       IN ctor' = IF err # ""
                  THEN [ctor EXCEPT !.step = "raised", !.raised = err]
                  ELSE [ctor EXCEPT !.step = "validated"]
    /\ UNCHANGED nonCtorVars

\* config = load_config() when no Config was passed.
CtorLoadConfig ==
    /\ ctor.step = "validated"
    /\ ctor' = [ctor EXCEPT !.step = "configured",
                            !.config_loaded = ~ctor.call.config_given]
    /\ UNCHANGED nonCtorVars

\* load_config() raises ConfigurationError (the environment is incomplete).
CtorLoadConfigRaises ==
    /\ ctor.step = "validated"
    /\ ~ctor.call.config_given
    /\ ctor' = [ctor EXCEPT !.step = "raised", !.raised = "ConfigurationError",
                            !.config_loaded = TRUE]
    /\ UNCHANGED nonCtorVars

\* token = generate_token(config, user_id, ...), whose error ends the construction.
CtorMint ==
    /\ ctor.step = "configured"
    /\ LET r == generate_token(Config, ctor.call.user_id, DefaultRole,
                               ctor.call.expiry_seconds, <<>>, now)
       IN ctor' = IF r.raised # ""
                  THEN [ctor EXCEPT !.step = "raised", !.raised = r.raised]
                  ELSE [ctor EXCEPT !.step = "minted", !.token_minted = TRUE]
    /\ UNCHANGED nonCtorVars

\* create_client / acreate_client with the Authorization header; the call returns.
CtorBuildClient ==
    /\ ctor.step = "minted"
    /\ ctor' = [ctor EXCEPT !.step = "done", !.client_built = TRUE]
    /\ UNCHANGED nonCtorVars

\* A step of a caller of a TokenRefreshProxy changes px alone.
nonProxyVars == <<now, flavor, expiry_seconds, refresh_threshold, token_exp, clients,
                  client, lock, surface, owner, pc, acc, current_time, token, path,
                  waited, regens, fails, first_exp, pending, mint_args, minted, ctor,
                  builder, delegated>>

NextCtor ==
    \/ BuilderBuild
    \/ CtorValidate
    \/ CtorLoadConfig
    \/ CtorLoadConfigRaises
    \/ CtorMint
    \/ CtorBuildClient

SpecCtor == InitCtor /\ [][NextCtor]_vars

\* create_proxy(target, token_manager), once or again on its own result: a caller holds
\* the proxy of a client or an async client, bound to a plain or an async token manager.
InitProxy ==
    /\ Constructed("sync", 1, 0, 0)
    /\ surface = {}
    /\ owner = [t \in Threads |-> "w1"]
    /\ mint_args = NoMintCall
    /\ minted = NotMinted
    /\ ctor = NoCtor
    /\ delegated = NoDelegated
    /\ builder = NoBuilder
    /\ \E class \in {"Client", "AsyncClient"}, m \in Managers, n \in 1..MaxWrap :
          LET root == Wrapped(Obj(class), m, n)
          IN px = ProxyState(root, root, "hold")

\* proxy.<name>: TokenRefreshProxy.__getattr__.
ProxyGetAttr(name) ==
    /\ px.stage = "hold"
    /\ Kind(px.held) = "proxy"
    /\ name \in Attributes(Underlying(px.held)[1][2])
    /\ px' = [px EXCEPT !.held = GetAttr(px.held, name),
                        !.checks = @ + GetAttrChecks(px.held, name)]
    /\ UNCHANGED nonProxyVars

\* wrapper(*args, **kwargs): the caller invokes (and awaits, if it is one) the wrapper
\* function it holds.
ProxyInvoke ==
    /\ px.stage = "hold"
    /\ Kind(px.held) = "wrapper"
    /\ px' = [px EXCEPT !.stage = "run", !.func = px.held, !.events = Events(px.held),
                        !.inv_checks = 0, !.raised = "",
                        !.sync_invocations =
                            IF IsCoroutineFunction(px.held) THEN @ ELSE @ + 1,
                        !.async_invocations =
                            IF IsCoroutineFunction(px.held) THEN @ + 1 ELSE @]
    /\ UNCHANGED nonProxyVars

\* token_manager.ensure_valid_token() / await token_manager.ensure_valid_token() returns.
ProxyCheck ==
    /\ px.stage = "run"
    /\ Head(px.events)[1] = "check"
    /\ px' = [px EXCEPT !.events = Tail(@), !.checks = @ + 1, !.inv_checks = @ + 1]
    /\ UNCHANGED nonProxyVars

\* ensure_valid_token raises: the exception leaves the wrapper.
ProxyCheckRaises ==
    /\ px.stage = "run"
    /\ Head(px.events)[1] = "check"
    /\ \E e \in ManagerErrors :
          px' = [px EXCEPT !.stage = "hold", !.events = <<>>, !.checks = @ + 1,
                          !.raised = e, !.held = WrapperRaises(e)]
    /\ UNCHANGED nonProxyVars

\* result = func(*args, **kwargs) / await func(*args, **kwargs) on the underlying
\* method, and the wrappers' returns.
ProxyCall ==
    /\ px.stage = "run"
    /\ Head(px.events)[1] = "call"
    /\ px' = [px EXCEPT !.stage = "hold", !.events = <<>>, !.calls = @ + 1,
                        !.held = Result(px.func)]
    /\ UNCHANGED nonProxyVars

\* The underlying method raises: the exception leaves the wrappers.
ProxyCallRaises ==
    /\ px.stage = "run"
    /\ Head(px.events)[1] = "call"
    /\ \E e \in ClientErrors :
          px' = [px EXCEPT !.stage = "hold", !.events = <<>>, !.calls = @ + 1,
                          !.raised = e, !.held = WrapperRaises(e)]
    /\ UNCHANGED nonProxyVars

\* The caller goes back to the proxy it was given.
ProxyRestart ==
    /\ px.stage = "hold"
    /\ px.held # px.root
    /\ px.restarts < MaxRestarts
    /\ px' = [px EXCEPT !.held = px.root, !.restarts = @ + 1]
    /\ UNCHANGED nonProxyVars

NextProxy ==
    \/ \E name \in UNION {Attributes(c) : c \in Classes} : ProxyGetAttr(name)
    \/ ProxyInvoke
    \/ ProxyCheck
    \/ ProxyCheckRaises
    \/ ProxyCall
    \/ ProxyCallRaises
    \/ ProxyRestart

SpecProxy == InitProxy /\ [][NextProxy]_vars

\* A builder has just been made, for a user id that is not blank and with a Config.
InitBuilder ==
    /\ Constructed("sync", 1, 0, 0)
    /\ surface = {}
    /\ owner = [t \in Threads |-> "w1"]
    /\ mint_args = NoMintCall
    /\ minted = NotMinted
    /\ ctor = NoCtor
    /\ px = NoProxy
    /\ delegated = NoDelegated
    /\ \E kind \in BuilderKinds : builder = BuilderState(NewBuilder(kind), "open")

\* A step of a builder changes builder alone.
nonBuilderVars == <<now, flavor, expiry_seconds, refresh_threshold, token_exp, clients,
                    client, lock, surface, owner, pc, acc, current_time, token, path,
                    waited, regens, fails, first_exp, pending, mint_args, minted, ctor,
                    px, delegated>>

\* A setter is called on the builder the caller holds; b2 is the builder after the call,
\* which is also what the call returns.
CallSetter(b2, expected2) ==
    /\ builder.step = "open"
    /\ builder.setters < MaxSetters
    /\ builder' = [builder EXCEPT !.b = b2, !.expected = expected2, !.setters = @ + 1,
                                  !.returned_self = @ /\ b2.kind = builder.b.kind]
    /\ UNCHANGED nonBuilderVars

WithRole ==
    \E role \in BuilderRoles :
        CallSetter(with_role(builder.b, role), [builder.expected EXCEPT !.role = role])

WithExpiry ==
    \E seconds \in BuilderExpiries :
        CallSetter(with_expiry(builder.b, seconds),
                   [builder.expected EXCEPT !.expiry_seconds = seconds])

WithClaims ==
    \E claims \in BuilderClaims :
        CallSetter(with_claims(builder.b, claims),
                   [builder.expected EXCEPT !.custom_claims = claims])

WithRefreshThreshold ==
    \E seconds \in Thresholds :
        CallSetter(with_refresh_threshold(builder.b, seconds),
                   [builder.expected EXCEPT !.refresh_threshold_seconds = seconds])

\* build(): the wrapper class is called with the options; generate_token refuses a
\* validity that is not positive.
Build ==
    /\ builder.step = "open"
    /\ LET r == generate_token(Config, <<"a">>, builder.b.role, builder.b.expiry_seconds,
                               builder.b.custom_claims, now)
       IN builder' = [builder EXCEPT !.step = "closed",
                                     !.built = IF r.raised # "" THEN r.raised
                                               ELSE "wrapper",
                                     !.wrapper = build(builder.b)]
    /\ UNCHANGED nonBuilderVars

NextBuilder ==
    \/ WithRole
    \/ WithExpiry
    \/ WithClaims
    \/ WithRefreshThreshold
    \/ Build

SpecBuilder == InitBuilder /\ [][NextBuilder]_vars

\* ================================================================ claims
Callers(w) == {t \in Threads : owner[t] = w}

\* Every caller of w has made its call and the call is over.
AllReturned(w) == Callers(w) # {} /\ \A t \in Callers(w) : pc[t] = "done"

\* The wrapper's own staleness test at the present clock.
IsStale(w) ==
    IF flavor[w] = "sync" THEN SyncStale(Sec(now), w) ELSE NeedsRefresh(now, w)

\* Every caller of w found the wrapper stale on its fast path (none returned there).
AllObservedStale(w) ==
    \A t \in Callers(w) : path[t] \in {"rechecked", "refreshed", "raised"}

Regenerating(w) == {t \in Callers(w) : pc[t] \in {"cc_mint", "cc_exp", "cc_client"}}

\* C1: a wrapper whose recorded expiry is now - 1 when the calls are launched (the clock
\* reads 0 then), with refresh threshold 0: once all K concurrent calls have returned, with
\* no regeneration raising and less than the validity elapsed, exactly one regeneration
\* has run and the wrapper is not stale.
C1_SingleFlightScenario ==
    \A w \in Wrappers :
        ( /\ refresh_threshold[w] = 0
          /\ first_exp[w] = 0 - 1
          /\ AllReturned(w)
          /\ fails[w] = 0
          /\ Sec(now) < expiry_seconds[w] )
        => (regens[w] = 1 /\ ~IsStale(w))

\* C1 witness: two threads raced in that scenario; one regenerated, the other waited for
\* the lock and found the wrapper fresh on its re-check.
C1_Witness ==
    \E w \in Wrappers :
        /\ refresh_threshold[w] = 0 /\ first_exp[w] = 0 - 1
        /\ AllReturned(w) /\ fails[w] = 0 /\ Sec(now) < expiry_seconds[w]
        /\ regens[w] = 1
        /\ \E t, u \in Callers(w) : path[t] = "refreshed" /\ path[u] = "rechecked"

\* What single-flight promises once every caller has returned: one regeneration, run by
\* one caller, the others having found the wrapper fresh on their re-check.
OneRegeneration(w) ==
    /\ regens[w] = 1
    /\ Cardinality({t \in Callers(w) : path[t] = "refreshed"}) = 1
    /\ \A t \in Callers(w) : path[t] \in {"refreshed", "rechecked"}

C3_MutualExclusion == \A w \in Wrappers : Cardinality(Regenerating(w)) <= 1

\* C3 witness: one caller is regenerating while another waits for the lock.
C3_Witness ==
    \E t, u \in Threads :
        /\ owner[t] = owner[u]
        /\ pc[t] = "cc_exp" /\ lock[owner[t]] = t
        /\ pc[u] = "ev_lock"

\* C4: a call that finds now + refresh_threshold < recorded expiry never regenerates:
\* every step it takes leaves the recorded expiry, the clients and the current client as
\* they were, invokes no regeneration, and ends the ensure-valid check.
C4_NoRefreshWhileFresh ==
    [][\A t \in Threads :
          (path[t] = "fresh" /\ pc'[t] # pc[t])
          => ( /\ pc'[t] \in {"done", "deleg"}
               /\ token_exp' = token_exp
               /\ clients' = clients
               /\ client' = client
               /\ regens' = regens )]_vars

\* C4 witness: a call found the wrapper fresh and returned on the fast path, nothing
\* having been regenerated.
C4_Witness ==
    \E t \in Threads :
        /\ path[t] = "fast" /\ pc[t] = "done"
        /\ regens[owner[t]] = 0
        /\ token_exp[owner[t]] = first_exp[owner[t]]
        /\ Len(clients[owner[t]]) = 1

\* C5: while every regeneration so far has failed, the recorded expiry is still the one
\* the wrapper had before (here: the one construction recorded).
C5_FailedRegenerationKeepsExpiry ==
    \A w \in Wrappers :
        (regens[w] > 0 /\ regens[w] = fails[w] /\ Regenerating(w) = {})
        => token_exp[w] = first_exp[w]

\* C6: a caller that was blocked on the lock while a regeneration attempt raised ends
\* its own call with that failure.
C6_FailureReachesEveryWaiter ==
    \A t \in Threads :
        (waited[t] /\ pc[t] \in {"done", "deleg"}) => path[t] = "raised"

\* C7: the lock is only ever held by a caller inside the locked block; a call that ended,
\* by an error or otherwise, does not hold it, so nobody waits on a lock that is never
\* released.
C7_LockReleasedAfterFailure ==
    \A w \in Wrappers :
        lock[w] # 0 =>
            /\ owner[lock[w]] = w
            /\ pc[lock[w]] \in {"ev_recheck", "cc_mint", "cc_exp", "cc_client"}

\* C7 witness: a caller that was waiting for the lock when a regeneration raised got the
\* lock afterwards and completed its own regeneration.
C7_Witness ==
    \E t \in Threads :
        /\ waited[t] /\ path[t] = "refreshed" /\ pc[t] = "done"
        /\ fails[owner[t]] > 0
        /\ lock[owner[t]] = 0

\* C8: no fast-path check of a ScopedClient returns "fresh" while a regeneration has
\* written the new expiry and the current client is still the one from before it.
C8_NoPartialRegenerationObserved ==
    [][\A t \in Threads :
          (flavor[owner[t]] = "sync" /\ pc[t] = "ev_fast" /\ path'[t] = "fast")
          => ~pending[owner[t]]]_vars

\* The ensure-valid check of the caller's operation has run to its end without raising.
EnsureCompleted(t) ==
    /\ path[t] \in {"fast", "rechecked", "refreshed"}
    /\ lock[owner[t]] # t
    /\ token[t] = NoToken

\* C9: whenever a caller of a ScopedClient is about to read the current client and
\* delegate, for any of the delegating operations, its ensure-valid check (with the
\* regeneration it triggered, if any) has completed.
C9_SyncGuardsEveryDelegation ==
    \A t \in Threads :
        (flavor[owner[t]] = "sync" /\ pc[t] = "deleg")
        => (acc[t] \in Accessors("sync") /\ EnsureCompleted(t))

\* C9 witness: two callers of the catch-all __getattr__ are about to delegate, one after
\* its ensure-valid check ran a regeneration to the end, the other after it waited for
\* the lock and found the wrapper fresh again.
C9_Witness ==
    \E t, u \in Threads :
        /\ flavor[owner[t]] = "sync" /\ owner[u] = owner[t]
        /\ pc[t] = "deleg" /\ acc[t] = "__getattr__" /\ path[t] = "refreshed"
        /\ pc[u] = "deleg" /\ acc[u] = "__getattr__" /\ path[u] = "rechecked"

\* C10: whenever a caller of an AsyncScopedClient is about to delegate while the wrapper
\* is stale, its ensure-valid check has completed.
C10_AsyncGuardsEveryDelegation ==
    \A t \in Threads :
        (flavor[owner[t]] = "async" /\ pc[t] = "deleg" /\ NeedsRefresh(now, owner[t]))
        => EnsureCompleted(t)

\* Caller t completes a regeneration of wrapper w in this step.
CompletesRegeneration(t, w) ==
    owner[t] = w /\ pc[t] = "cc_client" /\ path'[t] = "refreshed"

\* C11: no step replaces the external client of an AsyncScopedClient or builds another
\* one, and the step that completes a regeneration leaves the Authorization header of
\* that one client equal to the credential the regeneration minted.
C11_HeaderPatch ==
    [][\A w \in Wrappers :
          flavor[w] = "async" =>
              /\ client'[w] = client[w]
              /\ Len(clients'[w]) = Len(clients[w])
              /\ \A t \in Threads :
                    CompletesRegeneration(t, w) =>
                        /\ token[t] # NoToken
                        /\ clients'[w][client'[w]] = token[t]]_vars

\* C11 witness: an AsyncScopedClient has regenerated; it still has its one client, whose
\* header now carries a credential minted later than the one of construction.
C11_Witness ==
    \E t \in Threads :
        LET w == owner[t] IN
        /\ flavor[w] = "async" /\ path[t] = "refreshed"
        /\ Len(clients[w]) = 1 /\ client[w] = 1
        /\ clients[w][1].iat > first_exp[w] - expiry_seconds[w]

\* C12: no step of a ScopedClient modifies a client built earlier, and the step that
\* completes a regeneration builds one new client carrying the minted credential and
\* makes it the current client.
C12_Recreate ==
    [][\A w \in Wrappers :
          flavor[w] = "sync" =>
              /\ Len(clients'[w]) >= Len(clients[w])
              /\ \A i \in 1..Len(clients[w]) : clients'[w][i] = clients[w][i]
              /\ \A t \in Threads :
                    CompletesRegeneration(t, w) =>
                        /\ Len(clients'[w]) = Len(clients[w]) + 1
                        /\ client'[w] = Len(clients[w]) + 1
                        /\ clients'[w][client'[w]] = token[t]
              /\ (\A t \in Threads : ~CompletesRegeneration(t, w)) =>
                    (client'[w] = client[w] /\ Len(clients'[w]) = Len(clients[w]))]_vars

\* C12 witness: a ScopedClient has regenerated; the client of construction still carries
\* the first credential and the current client is a second one with a later credential.
C12_Witness ==
    \E w \in Wrappers :
        /\ flavor[w] = "sync"
        /\ Len(clients[w]) = 2 /\ client[w] = 2
        /\ clients[w][1].exp = first_exp[w]
        /\ clients[w][2].exp > clients[w][1].exp

\* C13: whenever no regeneration is half-way, the recorded expiry equals the exp claim of
\* the credential the current client carries.
C13_ExpiryMatchesCredential ==
    \A w \in Wrappers :
        ~pending[w] => token_exp[w] = clients[w][client[w]].exp

\* C14: when a regeneration records the expiry, nothing having raised before, and its
\* credential was minted in a later second than the credential the wrapper holds, the
\* recorded expiry grows.
C14_RefreshAdvancesExpiry ==
    [][\A t \in Threads :
          LET w == owner[t] IN
          ( /\ pc[t] = "cc_exp" /\ pc'[t] = "cc_client"
            /\ fails[w] = 0
            /\ token[t].iat > clients[w][client[w]].iat )
          => token_exp'[w] > token_exp[w]]_vars

\* The clock still reads what it read when wrapper w was constructed.
AtConstruction(w) == now = 0 /\ first_exp[w] = ExpiryAt(0, expiry_seconds[w])

\* C15 as stated: at the construction-time clock, whatever the validity and the refresh
\* threshold, the wrapper is not stale and no call has regenerated.
C15_StartsFreshAnyConfig ==
    \A w \in Wrappers :
        AtConstruction(w)
        => (~IsStale(w) /\ regens[w] = 0 /\ token_exp[w] = first_exp[w])

\* C15 amended: the same for the configurations with refresh threshold < validity.
C15_StartsFresh ==
    \A w \in Wrappers :
        (AtConstruction(w) /\ refresh_threshold[w] < expiry_seconds[w])
        => (~IsStale(w) /\ regens[w] = 0 /\ token_exp[w] = first_exp[w])

\* C15 witness: with refresh threshold < validity, an ensure-valid call made at the
\* construction-time clock has returned on the fast path.
C15_Witness ==
    \E t \in Threads :
        /\ AtConstruction(owner[t])
        /\ refresh_threshold[owner[t]] < expiry_seconds[owner[t]]
        /\ pc[t] = "done" /\ path[t] = "fast"

\* No other caller has started an operation.
Uncontended(t) == \A u \in Threads \ {t} : pc[u] = "idle"

\* C16: an uncontended ensure-valid call that found now + refresh_threshold >= recorded
\* expiry when it was made goes for the lock and invokes the regeneration; one that found
\* now + refresh_threshold < recorded expiry returns on the fast path; and at every clock
\* reading the fast-path test is the negation of the locked re-check.
C16_StalenessBoundary ==
    [][/\ \A w \in Wrappers, ct \in 0..MaxTick : SyncFresh(ct, w) <=> ~SyncStale(ct, w)
       /\ \A t \in Threads : FastFresh(t) <=> ~RecheckStale(t)
       /\ \A t \in Threads :
             Uncontended(t) =>
                 /\ (pc[t] = "ev_fast" /\ pc'[t] # "ev_fast")
                    => (pc'[t] = "ev_lock" <=> path[t] = "stale")
                 /\ (pc[t] = "ev_recheck" /\ pc'[t] # "ev_recheck")
                    => ( /\ path[t] = "stale"
                         /\ pc'[t] = "cc_mint"
                         /\ regens'[owner[t]] = regens[owner[t]] + 1 )]_vars

\* C16 witness: an uncontended call made exactly on the boundary now + refresh_threshold =
\* recorded expiry has invoked the regeneration.
C16_Witness ==
    \E t \in Threads :
        LET w == owner[t] IN
        /\ Uncontended(t)
        /\ pc[t] = "cc_mint"
        /\ now + refresh_threshold[w] * Res = token_exp[w] * Res

\* C17: a caller inside a regeneration holds the lock of its wrapper, and every step
\* that changes a wrapper's recorded expiry, current client or a client's header is
\* taken by the caller holding that wrapper's lock.
C17_WritesUnderLock ==
    [][/\ \A t \in Threads :
             pc[t] \in {"cc_mint", "cc_exp", "cc_client"} => lock[owner[t]] = t
       /\ \A w \in Wrappers :
             (token_exp'[w] # token_exp[w] \/ client'[w] # client[w]
                 \/ clients'[w] # clients[w])
             => \E t \in Threads :
                    lock[w] = t /\ owner[t] = w /\ pc'[t] # pc[t]]_vars

\* C17 witness: the lock holder has written the expiry and is about to write the client,
\* while another caller of the same wrapper is in its fast-path check.
C17_Witness ==
    \E t, u \in Threads :
        /\ owner[t] = owner[u] /\ lock[owner[t]] = t
        /\ pc[t] = "cc_client" /\ pending[owner[t]]
        /\ pc[u] = "ev_fast"

\* C18 as stated: in every reachable state, a wrapper is fresh on the present clock, or a
\* regeneration for it is in progress, or one has completed under the lock.
C18_RefreshStateInvariant ==
    \A w \in Wrappers :
        \/ FreshNow(w)
        \/ Regenerating(w) # {}
        \/ \E t \in Callers(w) : path[t] = "refreshed"

\* The staleness check caller t is in read the clock at a time with
\* now + refresh_threshold < recorded expiry.
CheckFoundFresh(t) ==
    LET w == owner[t] IN
    /\ pc[t] \in {"ev_fast", "ev_recheck"}
    /\ IF flavor[w] = "sync"
       THEN current_time[t] + refresh_threshold[w] < token_exp[w]
       ELSE current_time[t] + refresh_threshold[w] * Res < token_exp[w] * Res

\* C18 amended: whenever an ensure-valid call returns without raising, either its last
\* staleness check found now + refresh_threshold < recorded expiry, or the call completed
\* a regeneration while holding the lock.
C18_ReturnsFreshOrRegenerated ==
    [][\A t \in Threads :
          ( /\ pc[t] \in {"ev_fast", "ev_recheck", "cc_client"}
            /\ pc'[t] \in {"done", "deleg"}
            /\ path'[t] # "raised" )
          => \/ CheckFoundFresh(t)
             \/ (CompletesRegeneration(t, owner[t]) /\ lock[owner[t]] = t)]_vars

\* C18 witness: on one wrapper, one call has returned after completing a regeneration
\* and another after finding the wrapper fresh.
C18_Witness ==
    \E t, u \in Threads :
        /\ owner[t] = owner[u]
        /\ pc[t] = "done" /\ path[t] = "refreshed"
        /\ pc[u] = "done" /\ path[u] \in {"fast", "rechecked"}

\* A direct generate_token call with a non-blank user id and a positive validity has
\* been made.
MintedValid ==
    /\ minted.called
    /\ Strip(mint_args.user_id) # <<>>
    /\ (mint_args.expiry_given => mint_args.expiry_seconds > 0)

\* The claims a holder of the secret reads from the minted credential.
Decoded == JwtDecode(minted.jwt, Config.supabase_jwt_secret)

\* C19: for a non-blank user id and a positive validity, generate_token raises nothing
\* and the credential's claims are sub = the user id, role = the role given
\* ("authenticated" when none), aud = "authenticated", exp = iat + validity (3600 when not
\* given), together with every custom claim whose key is not a required one.
C19_MintedClaims ==
    MintedValid =>
        /\ minted.raised = ""
        /\ RequiredKeys \subseteq DOMAIN Decoded
        /\ Decoded["sub"] = mint_args.user_id
        /\ Decoded["role"] = IF mint_args.role_given THEN mint_args.role ELSE "authenticated"
        /\ Decoded["aud"] = "authenticated"
        /\ Decoded["exp"] = Decoded["iat"]
                            + IF mint_args.expiry_given THEN mint_args.expiry_seconds ELSE 3600
        /\ \A k \in DOMAIN mint_args.custom_claims \ RequiredKeys :
              k \in DOMAIN Decoded /\ Decoded[k] = mint_args.custom_claims[k]

\* C19 witness: a credential minted with role and validity left to their defaults and a
\* custom claim "org" carries that claim and expires 3600 seconds after iat.
C19_Witness ==
    /\ MintedValid
    /\ ~mint_args.role_given /\ ~mint_args.expiry_given
    /\ DOMAIN mint_args.custom_claims = {"org"}
    /\ Decoded["org"] = "acme"
    /\ Decoded["exp"] = Decoded["iat"] + 3600

\* C20: whatever the custom claims, sub, role and aud of the minted credential are the
\* requested ones, and the same call with any other custom claims gives the same three.
C20_OverrideProtection ==
    MintedValid =>
        /\ Decoded["sub"] = mint_args.user_id
        /\ Decoded["role"] = IF mint_args.role_given THEN mint_args.role ELSE "authenticated"
        /\ Decoded["aud"] = "authenticated"
        /\ \A other \in CustomClaimDicts :
              LET q == JwtDecode(generate_token(Config, mint_args.user_id,
                                                RoleOf(mint_args), ValidityOf(mint_args),
                                                other, now).jwt,
                                 Config.supabase_jwt_secret)
              IN /\ q["sub"] = Decoded["sub"]
                 /\ q["role"] = Decoded["role"]
                 /\ q["aud"] = Decoded["aud"]

\* C20 witness: custom claims that name sub, role and aud with other values were passed,
\* and the credential carries the requested user id, role and audience.
C20_Witness ==
    /\ MintedValid
    /\ {"sub", "role", "aud"} \subseteq DOMAIN mint_args.custom_claims
    /\ mint_args.custom_claims["sub"] # mint_args.user_id
    /\ mint_args.custom_claims["role"] # RoleOf(mint_args)
    /\ Decoded["sub"] = mint_args.user_id
    /\ Decoded["role"] = RoleOf(mint_args)
    /\ Decoded["aud"] = "authenticated"

\* Every character of the string is whitespace (the empty string included).
AllWhitespace(str) == \A i \in 1..Len(str) : str[i] = " "

\* C21: a generate_token call with an empty or all-whitespace user id, or with a validity
\* of zero or less, raises TokenError and returns no credential.
C21_MintRejectsBadInput ==
    ( /\ minted.called
      /\ \/ AllWhitespace(mint_args.user_id)
         \/ (mint_args.expiry_given /\ mint_args.expiry_seconds <= 0) )
    => (minted.raised = "TokenError" /\ minted.jwt = NoJwt)

\* C21 witness: generate_token was called with a user id of two spaces and a positive
\* validity, and raised TokenError.
C21_Witness ==
    /\ minted.called
    /\ mint_args.user_id = <<" ", " ">>
    /\ mint_args.expiry_given /\ mint_args.expiry_seconds > 0
    /\ minted.raised = "TokenError"
    /\ minted.jwt = NoJwt

\* C22: a construction call with an empty or all-whitespace user id never loads the
\* configuration, mints a credential or builds a client; once its entry point has run it
\* has ended with ClientError, and it never returns a client.
C22_BlankUserIdFailsFast ==
    (ctor.step # "idle" /\ AllWhitespace(ctor.call.user_id))
    => /\ ~ctor.config_loaded /\ ~ctor.token_minted /\ ~ctor.client_built
       /\ ctor.step \in {"called", "raised"}
       /\ ctor.step = "raised" => ctor.raised = "ClientError"

\* C22 witness: build() of AsyncScopedClientBuilder, for a user id of one space and no
\* Config passed, has ended with ClientError before anything was loaded or built.
C22_Witness ==
    /\ ctor.call.api = "AsyncScopedClientBuilder.build"
    /\ ctor.call.entry = "AsyncScopedClient.create"
    /\ ctor.call.user_id = <<" ">>
    /\ ~ctor.call.config_given
    /\ ctor.step = "raised" /\ ctor.raised = "ClientError"
    /\ ~ctor.config_loaded /\ ~ctor.token_minted /\ ~ctor.client_built
\* ---- proxies
\* The caller's invocation has reached the call of the underlying method.
AtUnderlyingCall == px.stage = "run" /\ Head(px.events)[1] = "call"

\* The caller was given one TokenRefreshProxy around the client, bound to m.
SingleProxy(m) == px.stage # "idle" /\ Layers(px.root) = 1 /\ ManagerOf(px.root) = m

\* C23: a primitive value (str, int, float, bool, bytes, None, list, dict, tuple, set) read
\* as an attribute or returned by a plain or async callable through a TokenRefreshProxy,
\* however many proxies deep, reaches the caller as the value itself, in no proxy.
C23_PrimitivesNotProxied ==
    (px.stage = "hold" /\ IsPrimitive(Underlying(px.held))) => px.held = Underlying(px.held)

C23_Witness ==
    /\ px.stage = "hold"
    /\ Layers(px.root) = 2
    /\ Underlying(px.root) = Obj("AsyncClient")
    /\ Underlying(px.func) = Method("AsyncQuery", "execute")
    /\ px.calls = 3
    /\ px.held = Prim("dict")

\* C24: in each of the four combinations of plain or async callable and plain or async
\* token manager, the call of the underlying method comes after a validity check of
\* the same invocation has returned.
C24_EveryCallGuarded == AtUnderlyingCall => px.inv_checks >= 1

\* C25: through one proxy with a plain token manager, a plain callable runs after exactly
\* one validity check of its invocation, and when the caller holds a value again the
\* checks made are as many as the plain callables invoked: n for a chain of n, m for m
\* separate calls.
C25_SyncManagerSyncCalls ==
    SingleProxy("sync_manager") =>
        /\ (AtUnderlyingCall /\ ~IsCoroutineFunction(px.func)) => px.inv_checks = 1
        /\ px.stage = "hold" => px.checks = px.sync_invocations

C25_Witness ==
    /\ SingleProxy("sync_manager")
    /\ px.stage = "hold"
    /\ Underlying(px.func) = Method("Query", "execute")
    /\ px.held = Prim("dict")
    /\ px.restarts = 0
    /\ px.sync_invocations = 3 /\ px.calls = 3 /\ px.checks = 3

\* C26: through one proxy with an async token manager, a plain callable runs after no
\* validity check and an async callable after exactly one awaited check of its
\* invocation; the checks made are as many as the async callables invoked.
C26_AsyncManager ==
    SingleProxy("async_manager") =>
        /\ AtUnderlyingCall =>
              px.inv_checks = (IF IsCoroutineFunction(px.func) THEN 1 ELSE 0)
        /\ px.stage = "hold" => px.checks = px.async_invocations

C26_Witness ==
    /\ SingleProxy("async_manager")
    /\ px.stage = "hold"
    /\ Underlying(px.func) = Method("AsyncQuery", "execute")
    /\ px.held = Prim("dict")
    /\ px.restarts = 0
    /\ px.sync_invocations = 2 /\ px.async_invocations = 1
    /\ px.calls = 3 /\ px.checks = 1

\* What one TokenRefreshProxy around the client, bound to the same manager, does when the
\* same method is invoked.
SingleWrapper(func) == WrapCallable(Underlying(func), ManagerOf(func))

\* C27: a method invoked through a proxy of a proxy (same token manager) runs after as
\* many validity checks as through the single proxy, so after at most one, and returns
\* the same underlying result.
C27_IdempotentWrapping ==
    /\ AtUnderlyingCall =>
          /\ px.inv_checks = Len(Events(SingleWrapper(px.func))) - 1
          /\ px.inv_checks <= 1
          /\ Underlying(Result(px.func)) = Underlying(Result(SingleWrapper(px.func)))

InLockedBlock(t) == pc[t] \in {"ev_recheck", "cc_mint", "cc_exp", "cc_client"}

\* C29: a step in which no caller of wrapper w moves leaves w's recorded expiry, clients,
\* current client and lock as they were; and a caller waiting for w's lock can take it
\* whenever no caller of w is in w's locked block, whatever goes on in the other wrapper.
C29_WrapperIndependence ==
    [][\A w \in Wrappers :
          /\ (\A t \in Callers(w) : pc'[t] = pc[t])
             => /\ token_exp'[w] = token_exp[w]
                /\ clients'[w] = clients[w]
                /\ client'[w] = client[w]
                /\ lock'[w] = lock[w]
          /\ \A t \in Callers(w) :
                (pc[t] = "ev_lock" /\ MayRun(t) /\ \A u \in Callers(w) : ~InLockedBlock(u))
                => ENABLED Acquire(t)]_vars

C29_Witness ==
    /\ owner[1] = "w1" /\ owner[2] = "w2"
    /\ lock["w1"] = 1 /\ lock["w2"] = 2
    /\ pc[1] = "cc_client" /\ pc[2] = "ev_recheck"
    /\ token_exp["w1"] # first_exp["w1"]
    /\ token_exp["w2"] = first_exp["w2"]
    /\ Len(clients["w2"]) = 1

\* ---- identity
\* Credential c was minted for wrapper w as w was built: its user id, role, validity and
\* custom claims.
MintedAsBuilt(c, w) ==
    /\ c.sub = UserId(w)
    /\ c.role = Role(w)
    /\ c.exp - c.iat = expiry_seconds[w]
    /\ c.claims = CustomClaims(w)

\* C30: every credential a wrapper has held, the first and the regenerated ones, was
\* minted with the user id, role, validity and custom claims of its construction; so no
\* credential of one wrapper carries the sub of a wrapper built for another user id.
C30_IdentityStable ==
    /\ \A w \in Wrappers : \A i \in 1..Len(clients[w]) : MintedAsBuilt(clients[w][i], w)
    /\ \A t \in Threads : token[t] # NoToken => MintedAsBuilt(token[t], owner[t])
    /\ \A w \in Wrappers : \A x \in Wrappers \ {w} :
          \A i \in 1..Len(clients[w]) : \A j \in 1..Len(clients[x]) :
              UserId(w) # UserId(x) => clients[w][i].sub # clients[x][j].sub

C30_Witness ==
    /\ regens["w1"] >= 1 /\ regens["w2"] >= 1
    /\ \A w \in Wrappers :
          /\ ~pending[w]
          /\ lock[w] = 0
          /\ clients[w][client[w]].iat > clients[w][1].iat
          /\ clients[w][client[w]].sub = UserId(w)
          /\ clients[w][client[w]].role = Role(w)

\* ---- builders
\* C31: after any sequence of setter calls on either builder, every setter has returned
\* the builder it was called on, the builder holds for each option the last value set or
\* its default ("authenticated", 3600, none, 60), no setter having touched another
\* option, and the wrapper build() produces has exactly these options.
C31_BuilderSemantics ==
    builder.step # "idle" =>
        /\ builder.returned_self
        /\ builder.b = builder.expected
        /\ builder.setters = 0 =>
              builder.b = [kind |-> builder.b.kind, role |-> "authenticated",
                           expiry_seconds |-> 3600, custom_claims |-> NoClaims,
                           refresh_threshold_seconds |-> 60]
        /\ builder.built = "wrapper" =>
              /\ builder.wrapper.class = BuildTarget(builder.b.kind \o ".build")
              /\ builder.wrapper.role = builder.expected.role
              /\ builder.wrapper.expiry_seconds = builder.expected.expiry_seconds
              /\ builder.wrapper.custom_claims = builder.expected.custom_claims
              /\ builder.wrapper.refresh_threshold_seconds =
                     builder.expected.refresh_threshold_seconds

C31_Witness ==
    /\ builder.b.kind = "AsyncScopedClientBuilder"
    /\ builder.setters = 3
    /\ builder.built = "wrapper"
    /\ builder.wrapper.class = "AsyncScopedClient.create"
    /\ builder.wrapper.role = "service_role"
    /\ builder.wrapper.expiry_seconds = 2
    /\ builder.wrapper.custom_claims = NoClaims
    /\ builder.wrapper.refresh_threshold_seconds = 60

\* ---- fast path
\* C32: a caller whose first staleness check finds now + refresh_threshold < recorded
\* expiry can always take its next step, whoever holds the lock, and that step returns
\* from the ensure-valid check without touching the lock.
C32_LockFreeFastPath ==
    [][\A t \in Threads :
          (pc[t] = "ev_fast" /\ CheckFoundFresh(t))
          => /\ ENABLED FastPath(t)
             /\ pc'[t] # pc[t]
                => /\ pc'[t] \in {"done", "deleg"}
                   /\ path'[t] = "fast"
                   /\ lock' = lock]_vars

\* C32 witness: the wrapper was stale from the start, one regeneration has begun and its
\* caller still holds the lock before the new client is in place; another caller has
\* meanwhile returned on the fast path.
C32_Witness ==
    \E t, u \in Threads :
        /\ t # u /\ owner[t] = owner[u]
        /\ first_exp[owner[t]] <= refresh_threshold[owner[t]]
        /\ regens[owner[t]] = 1
        /\ lock[owner[t]] = u /\ pc[u] = "cc_client"
        /\ path[t] = "fast" /\ pc[t] \in {"done", "deleg"}

\* ---- proxies: the chain
\* C33: whatever the caller holds after reading attributes and invoking callables through
\* a proxy, at any depth of the chain, is never a bare underlying object: an object that
\* is not a primitive is inside a TokenRefreshProxy, a method inside a wrapper function,
\* and every proxy and wrapper around it is bound to the token manager of the proxy the
\* caller started from.
C33_GuardingSurvivesChain ==
    (px.stage = "hold" /\ Kind(Underlying(px.held)) \in {"obj", "method"})
    => /\ Len(px.held) >= 2
       /\ Kind(Underlying(px.held)) = "obj" => Kind(px.held) = "proxy"
       /\ Kind(Underlying(px.held)) = "method" => Kind(px.held) = "wrapper"
       /\ \A i \in 1..(Len(px.held) - 1) :
             /\ px.held[i][1] \in {"proxy", "wrapper"}
             /\ px.held[i][2] = ManagerOf(px.root)

C33_Witness ==
    /\ px.stage = "hold"
    /\ px.calls = 2 /\ px.restarts = 0
    /\ ManagerOf(px.root) = "async_manager"
    /\ px.held = TokenRefreshProxy(Obj("AsyncQuery"), "async_manager")

\* ---- atomic refresh of AsyncScopedClient
\* Coroutine t is inside _ensure_valid_token, past any wait for the lock.
InsideEnsureValid(t) == pc[t] \in {"ev_fast", "ev_recheck", "cc_mint", "cc_exp", "cc_client"}

\* C34: in an AsyncScopedClient, from the staleness check through the locked re-check, the
\* expiry update and the header update no other coroutine of the wrapper takes a step; so
\* every step a coroutine takes outside its own regeneration sees the recorded expiry
\* together with the header of the same regeneration, and nobody ever waits for the lock.
C34_AsyncAtomicRefresh ==
    [][\A t \in Threads :
          flavor[owner[t]] = "async" =>
              /\ InsideEnsureValid(t)
                 => \A u \in Callers(owner[t]) \ {t} : pc'[u] = pc[u] /\ Suspended(u)
              /\ (pc'[t] # pc[t] /\ lock[owner[t]] # t) => ~pending[owner[t]]
              /\ pc[t] = "ev_lock" => lock[owner[t]] = 0]_vars

C34_Witness ==
    \E t, u \in Threads :
        /\ t # u /\ owner[t] = owner[u]
        /\ flavor[owner[t]] = "async"
        /\ lock[owner[t]] = t /\ pc[t] = "cc_client" /\ pending[owner[t]]
        /\ regens[owner[t]] = 2
        /\ pc[u] = "done" /\ path[u] = "refreshed"

\* ---- threshold not below validity
\* The clock reading of the staleness check caller t is in was taken no earlier than the
\* second at which the recorded expiry was written.
ReadNotBeforeMint(t) ==
    LET w == owner[t] IN
    IF flavor[w] = "sync"
    THEN current_time[t] >= token_exp[w] - expiry_seconds[w]
    ELSE current_time[t] >= (token_exp[w] - expiry_seconds[w]) * Res

\* C35 amended: a wrapper whose refresh threshold is at least its validity is stale at
\* every moment, right after each mint too, and regenerations run one caller at a time.
\* Every staleness check whose clock reading is not older than the recorded expiry's
\* writing sends its caller on to the lock or into a regeneration; in an
\* AsyncScopedClient that is every check, so every call regenerates.  Once K concurrent
\* callers have returned, none of them through a check with an outdated clock reading,
\* K regenerations have been invoked.
C35_StaleUnlessOvertaken ==
    [][\A w \in Wrappers :
          refresh_threshold[w] >= expiry_seconds[w] =>
              /\ IsStale(w)
              /\ Cardinality(Regenerating(w)) <= 1
              /\ \A t \in Callers(w) :
                    /\ ( /\ pc[t] \in {"ev_fast", "ev_recheck"}
                         /\ ReadNotBeforeMint(t)
                         /\ pc'[t] # pc[t] )
                       => pc'[t] \in {"ev_lock", "cc_mint"}
                    /\ flavor[w] = "async" => path[t] \notin {"fresh", "fast", "rechecked"}
              /\ ( /\ AllReturned(w)
                   /\ \A t \in Callers(w) : path[t] \notin {"fast", "rechecked"} )
                 => regens[w] = Cardinality(Callers(w))]_vars

\* C35 as stated: a wrapper whose refresh threshold is at least its validity is stale at
\* every moment, right after each mint too; no call on it ever ends its ensure-valid check
\* on the fast path or on the re-check, each one invokes a regeneration, one caller at a
\* time, and once K concurrent callers have all returned K regenerations have been invoked.
C35_PermanentStaleness ==
    \A w \in Wrappers :
        refresh_threshold[w] >= expiry_seconds[w] =>
            /\ IsStale(w)
            /\ \A t \in Callers(w) :
                  /\ path[t] \notin {"fresh", "fast", "rechecked"}
                  /\ pc[t] \in {"done", "deleg"} => path[t] \in {"refreshed", "raised"}
            /\ Cardinality(Regenerating(w)) <= 1
            /\ AllReturned(w) => regens[w] = Cardinality(Callers(w))

\* C35 witness: threshold equal to validity, a wrapper just built, the clock not moving:
\* both callers have returned and each has regenerated.
C35_Witness ==
    /\ now = 0
    /\ refresh_threshold["w1"] = expiry_seconds["w1"]
    /\ first_exp["w1"] = ExpiryAt(0, expiry_seconds["w1"])
    /\ AllReturned("w1")
    /\ \A t \in Callers("w1") : path[t] = "refreshed"
    /\ regens["w1"] = Cardinality(Callers("w1"))
    /\ Len(clients["w1"]) = 1 + Cardinality(Callers("w1"))

\* ---- monotone expiry
\* C36: no step of any interleaving of ensure-valid calls and regenerations, the clock
\* never going back, lowers the recorded expiry of a wrapper.
C36_ExpiryNeverDecreases ==
    [][\A w \in Wrappers : token_exp'[w] >= token_exp[w]]_vars

\* C36 witness: two regenerations at different seconds have each raised the recorded
\* expiry, and every caller has returned.
C36_Witness ==
    /\ AllReturned("w1")
    /\ regens["w1"] = 2
    /\ Len(clients["w1"]) = 3
    /\ clients["w1"][2].iat < clients["w1"][3].iat
    /\ token_exp["w1"] > first_exp["w1"] + 1

\* ---- progress
\* C37: under fair scheduling every caller that has entered the ensure-valid check
\* eventually leaves it, returning or raising; whenever a caller waits for the lock, the
\* lock is free for it to take or its holder is inside the locked block and able to take
\* its next step; and the holder of the lock never goes back to the start of the
\* ensure-valid check or to waiting for the lock.
C37_NoDeadlockNoStarvation ==
    /\ \A t \in Threads :
          (pc[t] \in {"ev_fast", "ev_lock", "ev_recheck", "cc_mint", "cc_exp", "cc_client"})
              ~> (pc[t] \in {"done", "deleg"})
    /\ [][\A t \in Threads :
            /\ pc[t] = "ev_lock" =>
                  IF lock[owner[t]] = 0
                  THEN MayRun(t) => ENABLED Acquire(t)
                  ELSE /\ owner[lock[owner[t]]] = owner[t]
                       /\ InLockedBlock(lock[owner[t]])
                       /\ ENABLED Step(lock[owner[t]])
            /\ lock[owner[t]] = t => pc'[t] \notin {"ev_fast", "ev_lock"}]_vars

\* C37 witness: a caller was waiting for the lock when the holder's regeneration raised;
\* it then took the lock, regenerated and returned.
C37_Witness ==
    \E t \in Threads :
        /\ waited[t]
        /\ pc[t] = "done" /\ path[t] = "refreshed"
        /\ lock[owner[t]] = 0
        /\ fails[owner[t]] = 1

\* ---- proxies: attribute access and failed checks
\* The caller's invocation is at a call of ensure_valid_token.
AtValidityCheck == px.stage = "run" /\ Head(px.events)[1] = "check"

\* C38: reading an attribute of a TokenRefreshProxy, whether it gives a sub-object, a
\* primitive or a method, calls neither ensure_valid_token nor any underlying method and
\* changes nothing but what the caller holds; the number of validity checks changes only
\* in a step of the invocation of a wrapped callable.
C38_AttributeAccessUnchecked ==
    [][/\ ( /\ px.stage = "hold" /\ px'.stage = "hold"
            /\ Kind(px.held) = "proxy"
            /\ px'.held # px.held /\ px'.held # px.root )
          => px' = [px EXCEPT !.held = px'.held]
       /\ px'.checks # px.checks
          => /\ AtValidityCheck
             /\ Kind(px.func) = "wrapper"
             /\ px'.checks = px.checks + 1]_vars

\* C38 witness: with a plain token manager the caller has read the property auth of the
\* client, then the method sign_out of what it got, without calling it: no check so far.
C38_Witness ==
    /\ px.stage = "hold"
    /\ ManagerOf(px.root) = "sync_manager"
    /\ px.held = WrapCallable(Method("Auth", "sign_out"), "sync_manager")
    /\ px.checks = 0 /\ px.calls = 0
    /\ px.sync_invocations = 0 /\ px.async_invocations = 0

\* C39: when ensure_valid_token raises in an invocation, the invocation ends there: the
\* caller gets that exception itself and no underlying method has been called by the
\* invocation.
C39_FailedCheckBlocksCall ==
    [][(AtValidityCheck /\ px'.raised # "")
       => /\ px'.raised \in ManagerErrors
          /\ px'.held = Raised(px'.raised)
          /\ px'.stage = "hold" /\ px'.events = <<>>
          /\ px'.calls = px.calls]_vars

\* C39 witness: in the chain table().select().execute() the first two invocations went
\* through and the check of the third raised.
C39_Witness ==
    /\ px.stage = "hold"
    /\ Layers(px.root) = 1
    /\ px.restarts = 0
    /\ Underlying(px.func) = Method("Query", "execute")
    /\ px.sync_invocations = 3 /\ px.calls = 2 /\ px.checks = 3
    /\ px.raised = "ConfigurationError"
    /\ px.held = Raised("ConfigurationError")

====
